---- MODULE Spec2Model ----
(***************************************************************************)
(* Dashboard of three client-side panels (weather, news, stocks) behind a  *)
(* tab shell.  Two specifications live here:                               *)
(*   ChartSpec - the stock chart windower (chartData), a pure function of  *)
(*               the historical series, the time range and the clock;      *)
(*   Spec      - the navigation shell and the three panel controllers with *)
(*               their asynchronous fetches.                               *)
(***************************************************************************)
EXTENDS Integers, Sequences, FiniteSets, TLC

VARIABLES
    cHist,      \* chart: historicalData seen by the memo (null or date -> record)
    cRange,     \* chart: timeRange seen by the memo
    cNow,       \* chart: value of `new Date()` when the memo last ran (ticks)
    cChart,     \* chart: the memoised chartData result
    cDone,      \* chart: TRUE once the memo has run on these inputs
    activeTab,  \* shell: the tab whose panel is mounted
    env,        \* process.env: the API keys
    weather,    \* WeatherPage state (useState cells)
    wFetches,   \* fetchWeather invocations awaiting a response, oldest first
    news,       \* News state (useState cells)
    nFetches,   \* fetchNews invocations awaiting a response, oldest first
    stocks,     \* StockDashboard state (useState cells)
    sFetches,   \* fetchStockData invocations awaiting a response, oldest first
    last,       \* history: the handler or completion that ran last
    seenLoading \* history: the mounted panel has shown loading since its mount

chartVars == <<cHist, cRange, cNow, cChart, cDone>>
panelVars ==
    <<activeTab, env, weather, wFetches, news, nFetches, stocks, sFetches, last, seenLoading>>
vars == <<chartVars, panelVars>>

\* a HistoricalData | null value: the null flag, and the date -> record mapping
NullHist == [null |-> TRUE, series |-> <<>>]
Hist(m) == [null |-> FALSE, series |-> m]

(***************************************************************************)
(* Time.  A date key "YYYY-MM-DD" is modelled by its day number d; the     *)
(* conversion `new Date(key).getTime()` yields the instant of that day's   *)
(* UTC midnight, d * TicksPerDay.  A tick stands for 86400000/TicksPerDay  *)
(* milliseconds.                                                           *)
(***************************************************************************)
TicksPerDay == 2
Today == 400
MaxRun == 35

DateMs(d) == d * TicksPerDay

TIME_RANGES == {"1week", "1month", "3months", "1year"}

\* stocks.tsx:172  days = timeRange === '1week' ? 7 : ... : 365
days_weekAsMonth(timeRange) ==
    IF timeRange = "1week" THEN 30
    ELSE IF timeRange = "1month" THEN 30
    ELSE IF timeRange = "3months" THEN 90 ELSE 365

days(timeRange) ==
    IF timeRange = "1week" THEN 7
    ELSE IF timeRange = "1month" THEN 30
    ELSE IF timeRange = "3months" THEN 90 ELSE 365

\* stocks.tsx:173  cutoffDate = new Date(now.getTime() - days * 24*60*60*1000)
cutoffDate(now, timeRange) == now - days(timeRange) * TicksPerDay

\* stocks.tsx:175  Object.entries(historicalData): the (key, record) pairs.
\* Their enumeration order is dropped: the keys are distinct dates, so the
\* sort below yields the same sequence from every order.
ObjectEntries(h) == { <<d, h.series[d]>> : d \in DOMAIN h.series }

\* stocks.tsx:176  .filter(([date]) => new Date(date) >= cutoffDate)
filterEntries_strict(entries, cutoff) ==
    { e \in entries : DateMs(e[1]) > cutoff }

filterEntries(entries, cutoff) ==
    { e \in entries : DateMs(e[1]) >= cutoff }

\* stocks.tsx:177-181  .map(([date, data]) => ({date, close, volume}))
mapEntries(entries) ==
    { [date |-> e[1], close |-> e[2].close, volume |-> e[2].volume] : e \in entries }

\* stocks.tsx:182  .sort((a, b) => time(a.date) - time(b.date)): ascending by
\* instant, built by repeatedly taking the element no other one precedes.
RECURSIVE SortAscending(_)
SortAscending(S) ==
    IF S = {} THEN <<>>
    ELSE LET m == CHOOSE x \in S : \A y \in S : DateMs(x.date) - DateMs(y.date) <= 0
         IN  <<m>> \o SortAscending(S \ {m})

sortByDate(S) == SortAscending(S)

\* stocks.tsx:175-182
allData(h, timeRange, now) ==
    sortByDate(mapEntries(filterEntries(ObjectEntries(h), cutoffDate(now, timeRange))))

\* stocks.tsx:184
sampleSize == 10

Max(a, b) == IF a >= b THEN a ELSE b

\* stocks.tsx:185  step = Math.max(1, Math.floor(allData.length / sampleSize))
step_roundUp(n) == Max(1, (n + sampleSize - 1) \div sampleSize)

step(n) == Max(1, n \div sampleSize)

\* stocks.tsx:188-191  for (i = 0; i < n; i += step) { push; if (len >= 10) break }
RECURSIVE SampleLoop(_, _, _, _, _)
SampleLoop(all, i, st, acc, limit) ==
    IF i >= Len(all) THEN acc
    ELSE LET acc2 == Append(acc, all[i + 1])
         IN  IF Len(acc2) >= limit THEN acc2
             ELSE SampleLoop(all, i + st, st, acc2, limit)

sampledData_noBreak(all) == SampleLoop(all, 0, step(Len(all)), <<>>, Len(all) + 1)

sampledData_skipFirst(all) == SampleLoop(all, step(Len(all)), step(Len(all)), <<>>, sampleSize)

sampledData(all) == SampleLoop(all, 0, step(Len(all)), <<>>, sampleSize)

\* stocks.tsx:193-207  labels and the single dataset's data
chartOf(sampled) ==
    [ threw    |-> FALSE,
      labels   |-> [k \in 1..Len(sampled) |-> sampled[k].date],
      datasets |-> << [k \in 1..Len(sampled) |-> sampled[k].close] >> ]

EmptyChart == [threw |-> FALSE, labels |-> <<>>, datasets |-> <<>>]

\* Object.entries(null) raises a TypeError
ThrownChart == [threw |-> TRUE, labels |-> <<>>, datasets |-> <<>>]

windowed(h, timeRange, now) ==
    IF h.null THEN ThrownChart
    ELSE chartOf(sampledData(allData(h, timeRange, now)))

chartData_noNullGuard(h, timeRange, now) == windowed(h, timeRange, now)

\* stocks.tsx:168-208  chartData = useMemo(..., [historicalData, timeRange])
chartData(h, timeRange, now) ==
    IF h.null THEN EmptyChart
    ELSE windowed(h, timeRange, now)

(***************************************************************************)
(* Inputs of the windower.                                                 *)
(***************************************************************************)
\* days around every window edge, and one day after today
EdgeDays ==
    { Today + 1, Today, Today - 6, Today - 7, Today - 8, Today - 30, Today - 31,
      Today - 90, Today - 91, Today - 365, Today - 366 }

Run(end, len) == (end - len + 1) .. end

DaySets ==
    (SUBSET EdgeDays)
      \cup { Run(e, len) : e \in {Today - 1, Today, Today + 1}, len \in 0..MaxRun }

RecordOf(d) == [close |-> 100 + (d % 7), volume |-> 1000 + (d % 3)]

Mapping(S) == [d \in S |-> RecordOf(d)]

Payloads == { Hist(Mapping(S)) : S \in DaySets }

\* instants of the current day at which the memo may run
NowSet == { DateMs(Today) + t : t \in 0..(TicksPerDay - 1) }



(***************************************************************************)
(* Panels.  Text typed by the user is a sequence of characters, on which   *)
(* trim and toUpperCase are computed; Str turns it into a string.  A       *)
(* nullable string is NULL or the string, any other nullable value is None *)
(* or Some(v).                                                             *)
(***************************************************************************)
MaxInFlight == 2

NULL == "null"
None == <<>>
Some(v) == <<v>>

IsSpace(c) == c = " "

\* String.prototype.trim
RECURSIVE TrimLeft(_)
TrimLeft(t) ==
    IF t # <<>> /\ IsSpace(Head(t)) THEN TrimLeft(Tail(t)) ELSE t

RECURSIVE TrimRight(_)
TrimRight(t) ==
    IF t # <<>> /\ IsSpace(t[Len(t)]) THEN TrimRight(SubSeq(t, 1, Len(t) - 1)) ELSE t

trim(t) == TrimRight(TrimLeft(t))

\* the string spelled by a sequence of characters
RECURSIVE Str(_)
Str(t) == IF t = <<>> THEN "" ELSE Head(t) \o Str(Tail(t))

RemoveAt(q, i) == SubSeq(q, 1, i - 1) \o SubSeq(q, i + 1, Len(q))

\* the handler or completion that ran last, with the text the user submitted
\* or the response body that arrived
Event(op, body) == [op |-> op, body |-> body]

(***************************************************************************)
(* Weather panel: src/components/weather.tsx                               *)
(***************************************************************************)
\* weather.tsx:52-56  the useState initial values
WeatherInitial ==
    [mounted |-> TRUE, city |-> "", inputCity |-> <<>>, data |-> None,
     error |-> NULL, loading |-> FALSE]

WeatherUnmounted == [WeatherInitial EXCEPT !.mounted = FALSE]

WeatherPhase(w) ==
    IF w.loading THEN "Loading"
    ELSE IF w.error # NULL THEN "Failed"
    ELSE IF w.data # None THEN "Success"
    ELSE "Idle"

\* the outcome of running a handler: the new state, and the requests it issued
Ran(state, requests) == [state |-> state, requests |-> requests]

\* weather.tsx:65  the request fetchWeather awaits first
WeatherRequest(cityName) == [cityName |-> cityName, pc |-> "resCurrent", currentOk |-> FALSE]

\* weather.tsx:59-67  fetchWeather up to its first await
fetchWeather(w, cityName) ==
    IF cityName = "" THEN Ran(w, <<>>)
    ELSE Ran([w EXCEPT !.loading = TRUE, !.error = NULL, !.data = None],
             <<WeatherRequest(cityName)>>)

\* weather.tsx:87-91  handleSearch: the city it selects
handleSearchCity_noBlankCheck(w) == Str(trim(w.inputCity))

handleSearchCity(w) ==
    IF Str(trim(w.inputCity)) # "" THEN Str(trim(w.inputCity)) ELSE w.city

\* weather.tsx:83-85  useEffect(() => { if (city) fetchWeather(city) }, [city])
\* after a render in which city changed from `oldCity`
weatherEffect_everyRender(w, oldCity) ==
    IF w.city # "" THEN fetchWeather(w, w.city) ELSE Ran(w, <<>>)

weatherEffect(w, oldCity) ==
    IF w.city # oldCity /\ w.city # "" THEN fetchWeather(w, w.city) ELSE Ran(w, <<>>)

\* weather.tsx:87-91  handleSearch, and the effect of the render it causes
handleSearchWeather(w) ==
    weatherEffect([w EXCEPT !.city = handleSearchCity(w)], w.city)

\* weather.tsx:76-80  catch: setError(err.message); finally: setLoading(false)
weatherFailed(w, message) == [w EXCEPT !.error = message, !.loading = FALSE]

\* weather.tsx:73-75,78-80  setData({current, forecast}); finally: setLoading(false)
weatherSucceeded(w, body) == [w EXCEPT !.data = Some(body), !.loading = FALSE]

WeatherInputs == { <<" ">>, <<" ", "O", "s", "l", "o", " ">>, <<"R", "i", "o">> }

\* the two parsed bodies for a city
WeatherBody(cityName) ==
    [current  |-> [q |-> cityName, kind |-> "weather"],
     forecast |-> [q |-> cityName, kind |-> "forecast"]]

\* weather.tsx:118,121-124  the user types `text` and submits the search
WeatherSearch ==
    \E text \in WeatherInputs :
        LET ran == handleSearchWeather([weather EXCEPT !.inputCity = text])
        IN  /\ activeTab = "weather"
            /\ Len(wFetches) + Len(ran.requests) <= MaxInFlight
            /\ weather' = ran.state
            /\ wFetches' = wFetches \o ran.requests
            /\ last' = Event("weatherSearch", Some(text))
            /\ seenLoading' = (seenLoading \/ weather'.loading)
            /\ UNCHANGED <<chartVars, activeTab, env, news, nFetches, stocks, sFetches>>

\* weather.tsx:65-68  the current-weather response arrives; the forecast is requested
WeatherCurrentResponds ==
    \E i \in 1..Len(wFetches), ok \in BOOLEAN :
        /\ wFetches[i].pc = "resCurrent"
        /\ wFetches' = [wFetches EXCEPT ![i].pc = "resForecast", ![i].currentOk = ok]
        /\ last' = Event("weatherCurrent", None)
        /\ seenLoading' = (seenLoading \/ weather'.loading)
        /\ UNCHANGED <<chartVars, activeTab, env, weather, news, nFetches, stocks, sFetches>>

\* weather.tsx:65-70,76-80  either fetch() rejects (transport failure)
WeatherRequestRejects ==
    \E i \in 1..Len(wFetches) :
        /\ weather' = weatherFailed(weather, "Failed to fetch")
        /\ wFetches' = RemoveAt(wFetches, i)
        /\ last' = Event("weatherFailed", None)
        /\ seenLoading' = (seenLoading \/ weather'.loading)
        /\ UNCHANGED <<chartVars, activeTab, env, news, nFetches, stocks, sFetches>>

\* weather.tsx:71  the forecast response arrives and one of the two is not ok
WeatherNotFound ==
    \E i \in 1..Len(wFetches), ok \in BOOLEAN :
        /\ wFetches[i].pc = "resForecast"
        /\ ~wFetches[i].currentOk \/ ~ok
        /\ weather' = weatherFailed(weather, "City not found")
        /\ wFetches' = RemoveAt(wFetches, i)
        /\ last' = Event("weatherFailed", None)
        /\ seenLoading' = (seenLoading \/ weather'.loading)
        /\ UNCHANGED <<chartVars, activeTab, env, news, nFetches, stocks, sFetches>>

\* weather.tsx:73-74  both are ok, a body is not JSON: json() rejects
WeatherJsonRejects ==
    \E i \in 1..Len(wFetches) :
        /\ wFetches[i].pc = "resForecast"
        /\ wFetches[i].currentOk
        /\ weather' = weatherFailed(weather, "Unexpected token < in JSON at position 0")
        /\ wFetches' = RemoveAt(wFetches, i)
        /\ last' = Event("weatherFailed", None)
        /\ seenLoading' = (seenLoading \/ weather'.loading)
        /\ UNCHANGED <<chartVars, activeTab, env, news, nFetches, stocks, sFetches>>

\* weather.tsx:71-75,78-80  both are ok and parse: the fetch succeeds
WeatherSucceeds ==
    \E i \in 1..Len(wFetches) :
        LET body == WeatherBody(wFetches[i].cityName)
        IN  /\ wFetches[i].pc = "resForecast"
            /\ wFetches[i].currentOk
            /\ weather' = weatherSucceeded(weather, body)
            /\ wFetches' = RemoveAt(wFetches, i)
            /\ last' = Event("weatherSucceeded", Some(body))
            /\ seenLoading' = (seenLoading \/ weather'.loading)
            /\ UNCHANGED <<chartVars, activeTab, env, news, nFetches, stocks, sFetches>>


(***************************************************************************)
(* News panel: src/components/news.tsx lines 1-204                         *)
(***************************************************************************)
\* news.tsx:19-27
categories ==
    {"general", "business", "entertainment", "health", "science", "sports", "technology"}

\* the category buttons the user presses in this model
ClickedCategories == {"general", "business", "sports"}

\* news.tsx:147-151  the useState initial values
NewsInitial ==
    [mounted |-> TRUE, articles |-> <<>>, loading |-> TRUE, error |-> NULL,
     selectedCategory |-> "general", refreshing |-> FALSE]

NewsUnmounted == [NewsInitial EXCEPT !.mounted = FALSE]

NewsPhase(n) ==
    IF n.loading THEN "Loading"
    ELSE IF n.error # NULL THEN "Failed"
    ELSE "Success"

\* news.tsx:156-158  the request fetchNews awaits
NewsRequest(category) == [category |-> category]

\* news.tsx:153-158  fetchNews up to its await
fetchNews_noLoading(n) == Ran(n, <<NewsRequest(n.selectedCategory)>>)

fetchNews(n) == Ran([n EXCEPT !.loading = TRUE], <<NewsRequest(n.selectedCategory)>>)

\* news.tsx:50,169-173  setSelectedCategory, and the effect of the render it
\* causes: fetchNews depends on selectedCategory, the effect on fetchNews
selectCategory(n, category) ==
    IF category # n.selectedCategory
    THEN fetchNews([n EXCEPT !.selectedCategory = category])
    ELSE Ran(n, <<>>)

\* news.tsx:175-178
handleRefresh(n) == fetchNews([n EXCEPT !.refreshing = TRUE])

\* news.tsx:159-160,165-168  setArticles(response.data.articles); setError(null); finally
newsSucceeded_dropStale(n, body) ==
    IF body # <<>> /\ body[1].category # n.selectedCategory
    THEN [n EXCEPT !.loading = FALSE, !.refreshing = FALSE]
    ELSE [n EXCEPT !.articles = body, !.error = NULL, !.loading = FALSE, !.refreshing = FALSE]

newsSucceeded(n, body) ==
    [n EXCEPT !.articles = body, !.error = NULL, !.loading = FALSE, !.refreshing = FALSE]

\* news.tsx:161-168  catch: setError(...); finally
newsFailed_keepRefreshing(n) ==
    [n EXCEPT !.error = "Failed to fetch news. Please try again later.", !.loading = FALSE]

newsFailed(n) ==
    [n EXCEPT !.error = "Failed to fetch news. Please try again later.",
              !.loading = FALSE, !.refreshing = FALSE]

\* response.data.articles for a category: no article, or the headlines of one
\* of two editions
NewsEditions == {"morning", "evening"}

NewsBodies(category) ==
    { <<>> } \cup { << [category |-> category, edition |-> e] >> : e \in NewsEditions }

\* news.tsx:50  a category button
NewsSelectCategory ==
    \E category \in ClickedCategories :
        LET ran == selectCategory(news, category)
        IN  /\ activeTab = "news"
            /\ Len(nFetches) + Len(ran.requests) <= MaxInFlight
            /\ news' = ran.state
            /\ nFetches' = nFetches \o ran.requests
            /\ last' = Event("newsCategory", None)
            /\ seenLoading' = (seenLoading \/ news'.loading)
            /\ UNCHANGED <<chartVars, activeTab, env, weather, wFetches, stocks, sFetches>>

\* news.tsx:72-73,175-178  the refresh button (disabled while refreshing)
NewsRefresh ==
    LET ran == handleRefresh(news)
    IN  /\ activeTab = "news"
        /\ ~news.refreshing
        /\ Len(nFetches) + Len(ran.requests) <= MaxInFlight
        /\ news' = ran.state
        /\ nFetches' = nFetches \o ran.requests
        /\ last' = Event("newsRefresh", None)
        /\ seenLoading' = (seenLoading \/ news'.loading)
        /\ UNCHANGED <<chartVars, activeTab, env, weather, wFetches, stocks, sFetches>>

\* news.tsx:156-160,165-168  the response arrives
NewsSucceeds ==
    \E i \in 1..Len(nFetches) :
        \E body \in NewsBodies(nFetches[i].category) :
            /\ news' = newsSucceeded(news, body)
            /\ nFetches' = RemoveAt(nFetches, i)
            /\ last' = Event("newsSucceeded", Some(body))
            /\ seenLoading' = (seenLoading \/ news'.loading)
            /\ UNCHANGED <<chartVars, activeTab, env, weather, wFetches, stocks, sFetches>>

\* news.tsx:161-168  axios rejects (transport failure or non-2xx status)
NewsFails_sharedError ==
    \E i \in 1..Len(nFetches) :
        /\ news' = newsFailed(news)
        /\ weather' = [weather EXCEPT !.error = news'.error]
        /\ nFetches' = RemoveAt(nFetches, i)
        /\ last' = Event("newsFailed", None)
        /\ seenLoading' = (seenLoading \/ news'.loading)
        /\ UNCHANGED <<chartVars, activeTab, env, wFetches, stocks, sFetches>>

NewsFails ==
    \E i \in 1..Len(nFetches) :
        /\ news' = newsFailed(news)
        /\ nFetches' = RemoveAt(nFetches, i)
        /\ last' = Event("newsFailed", None)
        /\ seenLoading' = (seenLoading \/ news'.loading)
        /\ UNCHANGED <<chartVars, activeTab, env, weather, wFetches, stocks, sFetches>>


(***************************************************************************)
(* Stock panel: src/components/stocks.tsx                                  *)
(***************************************************************************)
\* stocks.tsx:29
SUPPORTED_SYMBOLS ==
    <<"AAPL", "MSFT", "GOOGL", "AMZN", "TSLA", "ADBE", "NVDA", "META", "NFLX", "IBM",
      "INTC", "AMD">>

\* Array.prototype.includes
includes(array, x) == \E k \in 1..Len(array) : array[k] = x

\* Array.prototype.join
RECURSIVE join(_, _)
join(array, sep) ==
    IF array = <<>> THEN ""
    ELSE IF Len(array) = 1 THEN array[1]
    ELSE array[1] \o sep \o join(Tail(array), sep)

LowerCase ==
    <<"a", "b", "c", "d", "e", "f", "g", "h", "i", "j", "k", "l", "m", "n", "o", "p", "q",
      "r", "s", "t", "u", "v", "w", "x", "y", "z">>

UpperCase ==
    <<"A", "B", "C", "D", "E", "F", "G", "H", "I", "J", "K", "L", "M", "N", "O", "P", "Q",
      "R", "S", "T", "U", "V", "W", "X", "Y", "Z">>

\* String.prototype.toUpperCase
toUpperCase(t) ==
    [k \in 1..Len(t) |->
        IF \E j \in 1..Len(LowerCase) : LowerCase[j] = t[k]
        THEN UpperCase[CHOOSE j \in 1..Len(LowerCase) : LowerCase[j] = t[k]]
        ELSE t[k]]

UNDEFINED == "undefined"

\* values of process.env.NEXT_PUBLIC_ALPHAVANTAGE_API_KEY
ApiKeys == {UNDEFINED, "", "demo", "K7XQ"}

\* stocks.tsx:83  !!key && key !== 'demo'
keyIsValid_acceptDemo(key) == key # UNDEFINED /\ key # ""

keyIsValid(key) == key # UNDEFINED /\ key # "" /\ key # "demo"

\* stocks.tsx:54-61  the useState initial values
StocksInitial ==
    [mounted |-> TRUE, symbol |-> "MSFT", stockData |-> None, historicalData |-> None,
     timeRange |-> "3months", loading |-> FALSE, error |-> NULL, searchQuery |-> <<>>,
     apiKeyValid |-> FALSE]

StocksUnmounted == [StocksInitial EXCEPT !.mounted = FALSE]

StocksPhase(s) ==
    IF s.loading THEN "Loading"
    ELSE IF s.error # NULL THEN "Failed"
    ELSE IF s.stockData # None THEN "Success"
    ELSE "Idle"

\* stocks.tsx:291  the configuration warning is rendered
ConfigWarningShown(s) == s.mounted /\ ~s.apiKeyValid

\* stocks.tsx:97 and 163  the two messages built from the supported list
SupportedMessage == "Supported symbols: " \o join(SUPPORTED_SYMBOLS, ", ")
InvalidSymbolMessage == "Invalid symbol. Supported: " \o join(SUPPORTED_SYMBOLS, ", ")

\* stocks.tsx:140-146  catch: setError, setStockData(null), setHistoricalData(null); finally
stocksFailed(s, message) ==
    [s EXCEPT !.error = message, !.stockData = None, !.historicalData = None,
              !.loading = FALSE]

\* stocks.tsx:103-105  the request fetchStockData awaits first
StockRequest(s) ==
    [symbol |-> s.symbol, timeRange |-> s.timeRange, pc |-> "quote", quote |-> None]

\* stocks.tsx:86-105  fetchStockData up to its first await
fetchStockData(s) ==
    IF ~s.apiKeyValid
    THEN Ran([s EXCEPT !.error = "Please add your Alpha Vantage API key to .env.local"], <<>>)
    ELSE IF ~includes(SUPPORTED_SYMBOLS, s.symbol)
    THEN Ran(stocksFailed([s EXCEPT !.loading = TRUE, !.error = NULL], SupportedMessage), <<>>)
    ELSE Ran([s EXCEPT !.loading = TRUE, !.error = NULL], <<StockRequest(s)>>)

\* stocks.tsx:149-153  useEffect(..., [symbol, timeRange, apiKeyValid]) after a
\* render in which one of the three changed from its value in `old`
stockEffect(s, old) ==
    IF /\ <<s.symbol, s.timeRange, s.apiKeyValid>> # <<old.symbol, old.timeRange, old.apiKeyValid>>
       /\ s.apiKeyValid
    THEN fetchStockData(s)
    ELSE Ran(s, <<>>)

\* stocks.tsx:155-166  handleSearch
handleSearch_noValidation(s) ==
    IF Str(trim(s.searchQuery)) = "" THEN s
    ELSE [s EXCEPT !.symbol = Str(toUpperCase(trim(s.searchQuery))), !.searchQuery = <<>>]

handleSearch(s) ==
    LET newSymbol == Str(toUpperCase(trim(s.searchQuery)))
    IN  IF Str(trim(s.searchQuery)) = "" THEN s
        ELSE IF includes(SUPPORTED_SYMBOLS, newSymbol)
        THEN [s EXCEPT !.symbol = newSymbol, !.searchQuery = <<>>]
        ELSE [s EXCEPT !.error = InvalidSymbolMessage]

\* stocks.tsx:108-120  setStockData from the 'Global Quote' object
stockDataOf(quote) == [symbol |-> quote.symbol, price |-> quote.price]

quoteAccepted(s, quote) == [s EXCEPT !.stockData = Some(stockDataOf(quote))]

\* stocks.tsx:135-136,144-146  setHistoricalData(series); finally
historyStored(s, series) == [s EXCEPT !.historicalData = Some(series), !.loading = FALSE]

\* stocks.tsx:137-139,144-146  no 'Time Series (Daily)': nothing is stored; finally
historyMissing_noFinally(s) == s

historyMissing(s) == [s EXCEPT !.loading = FALSE]

\* stocks.tsx:129-131
outputsize(timeRange) == IF timeRange = "1year" THEN "full" ELSE "compact"

\* the 'Global Quote' object and the 'Time Series (Daily)' object of a request
QuoteBody(symbol) == [symbol |-> symbol, price |-> "price of " \o symbol]

SeriesBody(symbol, timeRange) ==
    [symbol |-> symbol, outputsize |-> outputsize(timeRange)]

\* texts the user types into the stock search box
StockInputs == { <<" ">>, <<" ", "a", "m", "d", " ">>, <<"M", "S", "F", "T">>, <<"x", "y", "z">> }

\* the time-range buttons the user presses in this model
ClickedRanges == {"3months", "1year"}

\* the symbol buttons the user presses in this model
ClickedSymbols == {"AMD", "MSFT"}

\* stocks.tsx:307,313  the user types `text` and submits the form
StockSearch ==
    \E text \in StockInputs :
        LET ran == stockEffect(handleSearch([stocks EXCEPT !.searchQuery = text]), stocks)
        IN  /\ activeTab = "stocks"
            /\ Len(sFetches) + Len(ran.requests) <= MaxInFlight
            /\ stocks' = ran.state
            /\ sFetches' = sFetches \o ran.requests
            /\ last' = Event("stockSearch", Some(text))
            /\ seenLoading' = (seenLoading \/ stocks'.loading)
            /\ UNCHANGED <<chartVars, activeTab, env, weather, wFetches, news, nFetches>>

\* stocks.tsx:426-440  a symbol button of the empty view
StockClickSymbol ==
    \E sym \in ClickedSymbols :
        LET ran == stockEffect([stocks EXCEPT !.symbol = sym], stocks)
        IN  /\ activeTab = "stocks"
            /\ stocks.stockData = None /\ ~stocks.loading /\ stocks.error = NULL
            /\ sym # stocks.symbol
            /\ Len(sFetches) + Len(ran.requests) <= MaxInFlight
            /\ stocks' = ran.state
            /\ sFetches' = sFetches \o ran.requests
            /\ last' = Event("stockSymbol", None)
            /\ seenLoading' = (seenLoading \/ stocks'.loading)
            /\ UNCHANGED <<chartVars, activeTab, env, weather, wFetches, news, nFetches>>

\* stocks.tsx:343,388-392  a time-range button of the quote view
StockSetTimeRange ==
    \E range \in ClickedRanges :
        LET ran == stockEffect([stocks EXCEPT !.timeRange = range], stocks)
        IN  /\ activeTab = "stocks"
            /\ stocks.stockData # None /\ ~stocks.loading
            /\ range # stocks.timeRange
            /\ Len(sFetches) + Len(ran.requests) <= MaxInFlight
            /\ stocks' = ran.state
            /\ sFetches' = sFetches \o ran.requests
            /\ last' = Event("stockTimeRange", None)
            /\ seenLoading' = (seenLoading \/ stocks'.loading)
            /\ UNCHANGED <<chartVars, activeTab, env, weather, wFetches, news, nFetches>>

\* stocks.tsx:106-120,128  the quote response holds a 'Global Quote'; the
\* historical series is requested
StockQuoteAccepted ==
    \E i \in 1..Len(sFetches) :
        LET quote == QuoteBody(sFetches[i].symbol)
        IN  /\ sFetches[i].pc = "quote"
            /\ stocks' = quoteAccepted(stocks, quote)
            /\ sFetches' = [sFetches EXCEPT ![i].pc = "historical", ![i].quote = Some(quote)]
            /\ last' = Event("stockQuote", Some(quote))
            /\ seenLoading' = (seenLoading \/ stocks'.loading)
            /\ UNCHANGED <<chartVars, activeTab, env, weather, wFetches, news, nFetches>>

\* stocks.tsx:121-125,140-146  the quote response is a rate-limit 'Note', or
\* holds neither key
StockQuoteRefused_continues ==
    \E i \in 1..Len(sFetches), note \in BOOLEAN :
        /\ sFetches[i].pc = "quote"
        /\ stocks' = [stocks EXCEPT !.error = IF note THEN "API limit reached. Try again in 1 minute."
                                                ELSE "No data found for this symbol."]
        /\ sFetches' = [sFetches EXCEPT ![i].pc = "historical",
                                         ![i].quote = Some(QuoteBody(sFetches[i].symbol))]
        /\ last' = Event("stockFailed", None)
        /\ seenLoading' = (seenLoading \/ stocks'.loading)
        /\ UNCHANGED <<chartVars, activeTab, env, weather, wFetches, news, nFetches>>

StockQuoteRefused ==
    \E i \in 1..Len(sFetches), note \in BOOLEAN :
        /\ sFetches[i].pc = "quote"
        /\ stocks' = stocksFailed(stocks, IF note THEN "API limit reached. Try again in 1 minute."
                                          ELSE "No data found for this symbol.")
        /\ sFetches' = RemoveAt(sFetches, i)
        /\ last' = Event("stockFailed", None)
        /\ seenLoading' = (seenLoading \/ stocks'.loading)
        /\ UNCHANGED <<chartVars, activeTab, env, weather, wFetches, news, nFetches>>

\* stocks.tsx:103-106,128-133,140-146  fetch() or json() of either request rejects
StockRequestRejects ==
    \E i \in 1..Len(sFetches) :
        /\ stocks' = stocksFailed(stocks, "Failed to fetch")
        /\ sFetches' = RemoveAt(sFetches, i)
        /\ last' = Event("stockFailed", None)
        /\ seenLoading' = (seenLoading \/ stocks'.loading)
        /\ UNCHANGED <<chartVars, activeTab, env, weather, wFetches, news, nFetches>>

\* stocks.tsx:133-136,144-146  the historical response holds the daily series
StockHistoryStored ==
    \E i \in 1..Len(sFetches) :
        LET series == SeriesBody(sFetches[i].symbol, sFetches[i].timeRange)
        IN  /\ sFetches[i].pc = "historical"
            /\ stocks' = historyStored(stocks, series)
            /\ sFetches' = RemoveAt(sFetches, i)
            /\ last' = Event("stockSucceeded", Some([quote |-> sFetches[i].quote[1], series |-> Some(series)]))
            /\ seenLoading' = (seenLoading \/ stocks'.loading)
            /\ UNCHANGED <<chartVars, activeTab, env, weather, wFetches, news, nFetches>>

\* stocks.tsx:137-139,144-146  the historical response is a 'Note' or holds
\* neither key: the fetch ends without an error and without a series
StockHistoryMissing ==
    \E i \in 1..Len(sFetches) :
        /\ sFetches[i].pc = "historical"
        /\ stocks' = historyMissing(stocks)
        /\ sFetches' = RemoveAt(sFetches, i)
        /\ last' = Event("stockSucceeded", Some([quote |-> sFetches[i].quote[1], series |-> None]))
        /\ seenLoading' = (seenLoading \/ stocks'.loading)
        /\ UNCHANGED <<chartVars, activeTab, env, weather, wFetches, news, nFetches>>

(***************************************************************************)
(* Navigation shell: src/unnamed/part_000.  Only the active tab's panel is *)
(* rendered: a tab change unmounts one panel, whose state is discarded,    *)
(* and mounts the other with its initial state.  The requests of an        *)
(* unmounted panel are dropped here, their completions can only set the    *)
(* state of a component that no longer exists.                             *)
(***************************************************************************)
Tabs == {"weather", "news", "stocks"}

\* weather.tsx:52-56,83-85  mount: the effect runs with city = ''
mountWeather == weatherEffect(WeatherInitial, WeatherInitial.city)

\* news.tsx:147-151,171-173  mount: the effect calls fetchNews
mountNews == fetchNews(NewsInitial)

\* stocks.tsx:54-61,81-84,149-153  mount: the key is validated, which re-runs
\* the fetch effect when it turns apiKeyValid true
mountStocks_skipValidation(key) ==
    stockEffect([StocksInitial EXCEPT !.apiKeyValid = TRUE], StocksInitial)

mountStocks(key) ==
    stockEffect([StocksInitial EXCEPT !.apiKeyValid = keyIsValid(key)], StocksInitial)

\* part_000:11-22  renderContent after setActiveTab(tab)
renderContent_allMounted(tab, key) ==
    [weather |-> mountWeather, news |-> mountNews, stocks |-> mountStocks(key)]

renderContent(tab, key) ==
    [weather |-> IF tab = "weather" THEN mountWeather ELSE Ran(WeatherUnmounted, <<>>),
     news    |-> IF tab = "news" THEN mountNews ELSE Ran(NewsUnmounted, <<>>),
     stocks  |-> IF tab = "stocks" THEN mountStocks(key) ELSE Ran(StocksUnmounted, <<>>)]

\* part_000:33,44,55  a sidebar button
SetActiveTab ==
    \E tab \in Tabs :
        LET shown == renderContent(tab, env.NEXT_PUBLIC_ALPHAVANTAGE_API_KEY)
        IN  /\ tab # activeTab
            /\ activeTab' = tab
            /\ weather' = shown.weather.state
            /\ wFetches' = shown.weather.requests
            /\ news' = shown.news.state
            /\ nFetches' = shown.news.requests
            /\ stocks' = shown.stocks.state
            /\ sFetches' = shown.stocks.requests
            /\ last' = Event("setActiveTab", None)
            /\ seenLoading' = shown[tab].state.loading
            /\ UNCHANGED <<chartVars, env>>

\* the chart inputs while the panels run
ChartIdle ==
    /\ cHist = NullHist
    /\ cRange = "3months"
    /\ cNow = DateMs(Today)
    /\ cChart = EmptyChart
    /\ cDone = FALSE

\* part_000:9  useState('weather'): the page opens on the weather tab
Init ==
    /\ ChartIdle
    /\ activeTab = "weather"
    /\ env \in [NEXT_PUBLIC_ALPHAVANTAGE_API_KEY : ApiKeys]
    /\ weather = renderContent("weather", env.NEXT_PUBLIC_ALPHAVANTAGE_API_KEY).weather.state
    /\ wFetches = <<>>
    /\ news = NewsUnmounted
    /\ nFetches = <<>>
    /\ stocks = StocksUnmounted
    /\ sFetches = <<>>
    /\ last = Event("mount", None)
    /\ seenLoading = FALSE

Next ==
    \/ SetActiveTab
    \/ WeatherSearch
    \/ WeatherCurrentResponds
    \/ WeatherRequestRejects
    \/ WeatherNotFound
    \/ WeatherJsonRejects
    \/ WeatherSucceeds
    \/ NewsSelectCategory
    \/ NewsRefresh
    \/ NewsSucceeds
    \/ NewsFails
    \/ StockSearch
    \/ StockClickSymbol
    \/ StockSetTimeRange
    \/ StockQuoteAccepted
    \/ StockQuoteRefused
    \/ StockRequestRejects
    \/ StockHistoryStored
    \/ StockHistoryMissing

Spec == Init /\ [][Next]_vars

\* the panels while the windower is exercised: the stock panel is shown
PanelsAtRest ==
    /\ activeTab = "stocks"
    /\ env = [NEXT_PUBLIC_ALPHAVANTAGE_API_KEY |-> UNDEFINED]
    /\ weather = WeatherUnmounted
    /\ wFetches = <<>>
    /\ news = NewsUnmounted
    /\ nFetches = <<>>
    /\ stocks = mountStocks(UNDEFINED).state
    /\ sFetches = <<>>
    /\ last = Event("mount", None)
    /\ seenLoading = FALSE

ChartInit ==
    /\ PanelsAtRest
    /\ cHist \in Payloads \cup {NullHist}
    /\ cRange \in TIME_RANGES
    /\ cNow \in NowSet
    /\ cChart = EmptyChart
    /\ cDone = FALSE

\* stocks.tsx:168-208  the memo runs on (historicalData, timeRange) at `now`
ChartMemo ==
    /\ ~cDone
    /\ cDone' = TRUE
    /\ cChart' = chartData(cHist, cRange, cNow)
    /\ UNCHANGED <<cHist, cRange, cNow>>
    /\ UNCHANGED panelVars

ChartNext == ChartMemo

ChartSpec == ChartInit /\ [][ChartNext]_vars


(***************************************************************************)
(* Claims about the windower, checked under ChartSpec.                     *)
(***************************************************************************)
\* the window lengths the specification names, per selector
SpecWindowDays(r) ==
    CASE r = "1week" -> 7 [] r = "1month" -> 30 [] r = "3months" -> 90 [] r = "1year" -> 365

SpecCutoff == cNow - SpecWindowDays(cRange) * TicksPerDay

InputDays == DOMAIN cHist.series

\* the records that pass a lower-bounded window filter
RetainedDays == { d \in InputDays : DateMs(d) >= SpecCutoff }

MinDay(S) == CHOOSE d \in S : \A e \in S : d <= e

StrictlyAscending(labels) ==
    \A k \in 1..(Len(labels) - 1) : DateMs(labels[k]) < DateMs(labels[k + 1])

\* C1: for every mapping and selector the windower returns at most 10 points
\* and the dates of its output are strictly increasing.
C1_AtMostTenAscending ==
    cDone => /\ Len(cChart.labels) <= 10
             /\ StrictlyAscending(cChart.labels)

C1_Witness ==
    /\ cDone
    /\ Cardinality(RetainedDays) > 10
    /\ Len(cChart.labels) = 10

\* C2 as stated: every output date d has now - windowDays <= d <= now, and 20
\* consecutive daily records ending today under 1week yield only records of
\* the last 7 days, at most 7 of them, ascending.
TwentyDaysOneWeek == ~cHist.null /\ InputDays = Run(Today, 20) /\ cRange = "1week"

C2_Original ==
    cDone =>
      /\ \A k \in 1..Len(cChart.labels) :
            /\ SpecCutoff <= DateMs(cChart.labels[k])
            /\ DateMs(cChart.labels[k]) <= cNow
      /\ TwentyDaysOneWeek =>
            /\ Len(cChart.labels) <= 7
            /\ StrictlyAscending(cChart.labels)

\* C2 amended: every output date d has d >= now - windowDays; d <= now holds
\* when no input record is dated after now (the filter has no upper bound).
\* For 20 consecutive daily records ending today under 1week the output holds
\* only records dated in [now - 7 days, now], ascending, at most 8 of them,
\* and at most 7 unless now is exactly that day's midnight.
C2_LowerBoundOnly ==
    cDone =>
      /\ \A k \in 1..Len(cChart.labels) : SpecCutoff <= DateMs(cChart.labels[k])
      /\ (\A d \in InputDays : DateMs(d) <= cNow) =>
            \A k \in 1..Len(cChart.labels) : DateMs(cChart.labels[k]) <= cNow
      /\ TwentyDaysOneWeek =>
            /\ \A k \in 1..Len(cChart.labels) :
                  /\ SpecCutoff <= DateMs(cChart.labels[k])
                  /\ DateMs(cChart.labels[k]) <= cNow
            /\ StrictlyAscending(cChart.labels)
            /\ Len(cChart.labels) <= 8
            /\ (cNow # DateMs(Today)) => Len(cChart.labels) <= 7

C2_Witness ==
    /\ cDone
    /\ TwentyDaysOneWeek
    /\ Len(cChart.labels) = 8

\* C3: whenever at least one record passes the window filter, the first
\* output element is the earliest retained record.
C3_FirstIsEarliest ==
    (cDone /\ RetainedDays # {}) =>
        /\ Len(cChart.labels) >= 1
        /\ cChart.labels[1] = MinDay(RetainedDays)

C3_Witness ==
    /\ cDone
    /\ Cardinality(RetainedDays) > 10
    /\ cChart.labels[1] = MinDay(RetainedDays)
    /\ RetainedDays # InputDays

NoPoints(chart) ==
    /\ chart.labels = <<>>
    /\ \A k \in 1..Len(chart.datasets) : chart.datasets[k] = <<>>

\* C4: windowing an empty mapping, or a null historical payload, yields no
\* labels and no points and raises no error, for every selector.
C4_EmptyInEmptyOut ==
    (cDone /\ (cHist.null \/ InputDays = {})) =>
        /\ ~cChart.threw
        /\ NoPoints(cChart)

C4_Witness ==
    /\ cDone
    /\ cHist.null
    /\ cRange = "1year"
    /\ NoPoints(cChart)

\* the windower with the date filter removed (an unbounded window)
UnboundedChart(h) == chartOf(sampledData(sortByDate(mapEntries(ObjectEntries(h)))))

AllInsideWindow ==
    \A d \in InputDays : SpecCutoff <= DateMs(d) /\ DateMs(d) <= cNow

\* C5: when every record date lies inside the selected window, the output
\* equals the output of the unbounded window on the same mapping.
C5_LargeWindowIsUnbounded ==
    (cDone /\ ~cHist.null /\ AllInsideWindow) => cChart = UnboundedChart(cHist)

C5_Witness ==
    /\ cDone
    /\ ~cHist.null
    /\ AllInsideWindow
    /\ \E d \in InputDays : DateMs(d) = SpecCutoff
    /\ Cardinality(InputDays) >= 2

(***************************************************************************)
(* Claims about the panels, checked under Spec.                            *)
(***************************************************************************)
\* C6 as stated: in every reachable state of every panel at most one fetch
\* of that panel is in flight.
C6_AtMostOneInFlight ==
    /\ Len(wFetches) <= 1
    /\ Len(nFetches) <= 1
    /\ Len(sFetches) <= 1

InvalidKeys == {UNDEFINED, "", "demo"}

StockKey == env.NEXT_PUBLIC_ALPHAVANTAGE_API_KEY

StockResponseOps == {"stockQuote", "stockFailed", "stockSucceeded"}

\* C7: when the stock API key is missing or is 'demo', the mounted stock panel
\* shows the configuration warning, has no request in flight and receives no
\* response, whatever the user does.
C7_NoKeyNoRequest ==
    (stocks.mounted /\ StockKey \in InvalidKeys) =>
        /\ ConfigWarningShown(stocks)
        /\ sFetches = <<>>
        /\ last.op \notin StockResponseOps
        /\ ~stocks.loading

C7_Witness ==
    /\ stocks.mounted
    /\ StockKey = "demo"
    /\ ConfigWarningShown(stocks)
    /\ stocks.symbol = "AMD"
    /\ stocks.error = InvalidSymbolMessage

SupportedList == "AAPL, MSFT, GOOGL, AMZN, TSLA, ADBE, NVDA, META, NFLX, IBM, INTC, AMD"

SupportedSet ==
    {"AAPL", "MSFT", "GOOGL", "AMZN", "TSLA", "ADBE", "NVDA", "META", "NFLX", "IBM",
     "INTC", "AMD"}

\* the symbol a submitted text stands for
SubmittedSymbol(text) == Str(toUpperCase(trim(text)))

\* C8: when the user submits a non-blank stock symbol that, trimmed and
\* upper-cased, is not in the supported list, the error becomes the message
\* naming the supported symbols, the selected symbol is unchanged and no fetch
\* is started.
C8_UnsupportedSymbolRejected ==
    [][ ( /\ last'.op = "stockSearch"
          /\ SubmittedSymbol(last'.body[1]) # ""
          /\ SubmittedSymbol(last'.body[1]) \notin SupportedSet )
        => ( /\ stocks'.error = "Invalid symbol. Supported: " \o SupportedList
             /\ stocks'.symbol = stocks.symbol
             /\ stocks'.timeRange = stocks.timeRange
             /\ sFetches' = sFetches
             /\ stocks'.loading = stocks.loading ) ]_vars

C8_Witness ==
    /\ last.op = "stockSearch"
    /\ SubmittedSymbol(last.body[1]) = "XYZ"
    /\ stocks.error = InvalidSymbolMessage
    /\ stocks.symbol = "AMD"
    /\ stocks.apiKeyValid
    /\ ~stocks.loading

Settled == {"Success", "Failed"}

\* a step in which the user changes the selected parameter of a settled
\* panel, or refreshes the settled news panel
WeatherParamChange ==
    /\ last'.op = "weatherSearch"
    /\ WeatherPhase(weather) \in Settled
    /\ weather'.city # weather.city

NewsParamChange ==
    /\ last'.op \in {"newsCategory", "newsRefresh"}
    /\ NewsPhase(news) \in Settled
    /\ last'.op = "newsCategory" => news'.selectedCategory # news.selectedCategory

StocksParamChange ==
    /\ last'.op \in {"stockSearch", "stockSymbol", "stockTimeRange"}
    /\ StocksPhase(stocks) \in Settled
    /\ <<stocks'.symbol, stocks'.timeRange>> # <<stocks.symbol, stocks.timeRange>>

WeatherEntersLoading ==
    /\ weather'.loading
    /\ Len(wFetches') = Len(wFetches) + 1
    /\ wFetches'[Len(wFetches')].cityName = weather'.city
    /\ wFetches'[Len(wFetches')].pc = "resCurrent"

NewsEntersLoading ==
    /\ news'.loading
    /\ Len(nFetches') = Len(nFetches) + 1
    /\ nFetches'[Len(nFetches')].category = news'.selectedCategory

StocksEntersLoading ==
    /\ stocks'.loading
    /\ Len(sFetches') = Len(sFetches) + 1
    /\ sFetches'[Len(sFetches')].symbol = stocks'.symbol
    /\ sFetches'[Len(sFetches')].timeRange = stocks'.timeRange
    /\ sFetches'[Len(sFetches')].pc = "quote"

\* the phase of the mounted panel
MountedPhase ==
    CASE activeTab = "weather" -> WeatherPhase(weather)
      [] activeTab = "news"    -> NewsPhase(news)
      [] activeTab = "stocks"  -> StocksPhase(stocks)

\* C9 as stated: in every panel a parameter change (or news refresh) of a
\* settled panel enters Loading with a fetch for the new parameter, and no
\* panel is in Success or Failed without having been in Loading.
C9_Original ==
    [][ /\ WeatherParamChange => WeatherEntersLoading
        /\ NewsParamChange => NewsEntersLoading
        /\ StocksParamChange => StocksEntersLoading
        /\ (MountedPhase \in Settled => seenLoading)' ]_vars

\* C9 amended: in the weather and news panels, and in the stock panel when
\* its API key is valid, a parameter change (or news refresh) of a settled
\* panel enters Loading with a fetch for the new parameter; with an invalid
\* key the stock panel starts no fetch and never loads.  No panel is in
\* Success without having been in Loading, and the only Failed state reached
\* without Loading is the stock panel's after a symbol search that failed
\* validation.
C9_LoadingOnChange ==
    [][ /\ WeatherParamChange => WeatherEntersLoading
        /\ NewsParamChange => NewsEntersLoading
        /\ StocksParamChange =>
              IF keyIsValid(StockKey) THEN StocksEntersLoading
              ELSE sFetches' = <<>> /\ ~stocks'.loading
        /\ (MountedPhase = "Success" => seenLoading)'
        /\ ((MountedPhase = "Failed" /\ ~seenLoading) =>
               (activeTab = "stocks" /\ stocks.error = InvalidSymbolMessage))' ]_vars

C9_Witness ==
    /\ last.op = "newsCategory"
    /\ news.loading
    /\ news.error # NULL
    /\ Len(nFetches) = 1
    /\ news.selectedCategory = "sports"

\* C10 as stated: at the moment a fetch completes successfully the panel's
\* stored payload is the payload of that response and its error is none.
C10_SuccessStoresPayloadClearsError ==
    /\ last.op = "weatherSucceeded" =>
          weather.data = last.body /\ weather.error = NULL
    /\ last.op = "newsSucceeded" =>
          news.articles = last.body[1] /\ news.error = NULL
    /\ last.op = "stockSucceeded" =>
          /\ stocks.stockData = Some(stockDataOf(last.body[1].quote))
          /\ last.body[1].series # None => stocks.historicalData = last.body[1].series
          /\ stocks.error = NULL

(***************************************************************************)
(* Claims about failures, frames and stale responses, checked under Spec.  *)
(***************************************************************************)
NoMessage == {NULL, ""}

\* C11 as stated: when a fetch fails the panel stores a non-empty error
\* message; the weather and stock panels then hold no payload (neither quote
\* nor history), and the news panel holds the articles it held before.
C11_FailureStoresErrorDropsPayload ==
    [][ /\ last'.op = "weatherFailed" =>
              weather'.error \notin NoMessage /\ weather'.data = None
        /\ last'.op = "stockFailed" =>
              /\ stocks'.error \notin NoMessage
              /\ stocks'.stockData = None
              /\ stocks'.historicalData = None
        /\ last'.op = "newsFailed" =>
              news'.error \notin NoMessage /\ news'.articles = news.articles ]_vars

\* the fetch a request of a panel's queue belongs to
FetchOf(request) ==
    [f \in DOMAIN request \ {"pc", "currentOk", "quote"} |-> request[f]]

\* a step of a queue in which no fetch is started: the queue is left alone,
\* one fetch moves on to its next await, or one fetch ends
NoFetchStarted(before, after) ==
    \/ /\ Len(after) = Len(before)
       /\ \A i \in 1..Len(before) : FetchOf(after[i]) = FetchOf(before[i])
    \/ \E i \in 1..Len(before) : after = RemoveAt(before, i)

\* a step of a queue in which exactly one fetch is started
OneFetchStarted(before, after) ==
    /\ Len(after) = Len(before) + 1
    /\ SubSeq(after, 1, Len(before)) = before

UserOps ==
    {"weatherSearch", "newsCategory", "newsRefresh", "stockSearch", "stockSymbol",
     "stockTimeRange"}

\* C12: no panel retries by itself.  A step that is neither a mount nor a
\* user event starts no fetch; a mount starts at most one fetch; a user event
\* starts at most one, and starts one only if it changed the selected
\* parameter or was a refresh.  Hence the fetches started never outnumber
\* the mounts and user events.
C12_NoAutomaticRetry ==
    [][ /\ last'.op \notin UserOps \cup {"setActiveTab"} =>
              /\ NoFetchStarted(wFetches, wFetches')
              /\ NoFetchStarted(nFetches, nFetches')
              /\ NoFetchStarted(sFetches, sFetches')
        /\ last'.op = "setActiveTab" =>
              Len(wFetches') + Len(nFetches') + Len(sFetches') <= 1
        /\ last'.op \in UserOps =>
              /\ \/ NoFetchStarted(wFetches, wFetches')
                 \/ OneFetchStarted(wFetches, wFetches') /\ weather'.city # weather.city
              /\ \/ NoFetchStarted(nFetches, nFetches')
                 \/ /\ OneFetchStarted(nFetches, nFetches')
                    /\ \/ last'.op = "newsRefresh"
                       \/ news'.selectedCategory # news.selectedCategory
              /\ \/ NoFetchStarted(sFetches, sFetches')
                 \/ /\ OneFetchStarted(sFetches, sFetches')
                    /\ <<stocks'.symbol, stocks'.timeRange>> # <<stocks.symbol, stocks.timeRange>>
      ]_vars

\* a fetch has failed, and the panel is at rest with its error
C12_Witness ==
    /\ last.op = "weatherFailed"
    /\ weather.error = "City not found"
    /\ ~weather.loading
    /\ wFetches = <<>>

WeatherOps == {"weatherSearch", "weatherCurrent", "weatherFailed", "weatherSucceeded"}

NewsOps == {"newsCategory", "newsRefresh", "newsSucceeded", "newsFailed"}

StockOps ==
    {"stockSearch", "stockSymbol", "stockTimeRange", "stockQuote", "stockFailed",
     "stockSucceeded"}

\* C13: every step of one panel (parameter change, fetch start, success,
\* failure) leaves the other two panels, their requests and the active tab
\* unchanged.
C13_PanelStateIsLocal ==
    [][ /\ last'.op \in WeatherOps => UNCHANGED <<activeTab, news, nFetches, stocks, sFetches>>
        /\ last'.op \in NewsOps => UNCHANGED <<activeTab, weather, wFetches, stocks, sFetches>>
        /\ last'.op \in StockOps => UNCHANGED <<activeTab, weather, wFetches, news, nFetches>>
      ]_vars

\* the stock panel has failed while the other two are as the shell left them
C13_Witness ==
    /\ last.op = "stockFailed"
    /\ activeTab = "stocks"
    /\ stocks.error = "API limit reached. Try again in 1 minute."
    /\ weather = WeatherUnmounted
    /\ news = NewsUnmounted

\* the fetches started earlier are all still in flight after a user event
SupersededKept(before, after) ==
    Len(after) >= Len(before) /\ SubSeq(after, 1, Len(before)) = before

\* C14: a stale response overwrites fresher state.  A user event cancels no
\* fetch in flight, and the response of a fetch whose parameter is no longer
\* the selected one is stored like any other, the selection staying as it
\* is; so the execution 'A requested, B selected, B answered, A answered'
\* ends with A's payload shown under the selected parameter B.
C14_StaleResponseOverwrites ==
    [][ /\ last'.op \in UserOps =>
              /\ SupersededKept(wFetches, wFetches')
              /\ SupersededKept(nFetches, nFetches')
              /\ SupersededKept(sFetches, sFetches')
        /\ (/\ last'.op = "newsSucceeded"
            /\ last'.body[1] # <<>>
            /\ last'.body[1][1].category # news.selectedCategory) =>
              /\ news'.articles = last'.body[1]
              /\ news'.selectedCategory = news.selectedCategory
        /\ (/\ last'.op = "weatherSucceeded"
            /\ last'.body[1].current.q # weather.city) =>
              /\ weather'.data = last'.body
              /\ weather'.city = weather.city
        /\ (/\ last'.op = "stockQuote"
            /\ last'.body[1].symbol # stocks.symbol) =>
              /\ stocks'.stockData = Some(stockDataOf(last'.body[1]))
              /\ stocks'.symbol = stocks.symbol
      ]_vars

\* the response for 'general' arrived last, after 'business' was selected
\* and its fetch had ended: the general headlines are shown under 'business'
C14_Witness ==
    /\ last.op = "newsSucceeded"
    /\ news.selectedCategory = "business"
    /\ news.articles # <<>>
    /\ news.articles[1].category = "general"
    /\ ~news.loading
    /\ news.error = NULL
    /\ nFetches = <<>>

(***************************************************************************)
(* Claims about what a fetch stores and clears, checked under Spec.        *)
(***************************************************************************)
\* C15 as stated: when a stock fetch completes without error the stored
\* quote and the stored historical series both come from that fetch, and the
\* panel never holds a quote together with the history of another fetch.
C15_PayloadReplacedWholesale ==
    /\ last.op = "stockSucceeded" =>
          /\ stocks.stockData = Some(stockDataOf(last.body[1].quote))
          /\ stocks.historicalData = last.body[1].series
    /\ (activeTab = "stocks" /\ stocks.stockData # None /\ stocks.historicalData # None) =>
          stocks.historicalData[1].symbol = stocks.stockData[1].symbol

\* a step in which a panel starts a fetch and sets loading
WeatherFetchStarted == OneFetchStarted(wFetches, wFetches') /\ weather'.loading

NewsFetchStarted == OneFetchStarted(nFetches, nFetches') /\ news'.loading

StocksFetchStarted == OneFetchStarted(sFetches, sFetches') /\ stocks'.loading

\* C16 as stated: in every panel, immediately after a fetch has been started
\* (loading set to true) the panel's error message is none.
C16_LoadingClearsError ==
    [][ /\ WeatherFetchStarted => weather'.error = NULL
        /\ NewsFetchStarted => news'.error = NULL
        /\ StocksFetchStarted => stocks'.error = NULL ]_vars

\* C17 as stated: on entering Loading the weather panel holds no data and
\* the stock panel neither quote nor history, while the news panel holds the
\* articles it held before.
C17_LoadingClearsPayload ==
    [][ /\ WeatherFetchStarted => weather'.data = None
        /\ StocksFetchStarted =>
              stocks'.stockData = None /\ stocks'.historicalData = None
        /\ (NewsFetchStarted /\ last'.op # "setActiveTab") =>
              news'.articles = news.articles ]_vars

\* C18 as stated: every fetch that meets a transport failure, a non-success
\* status or rate limit, or a malformed response ends with a non-empty error
\* message, the rate-limited or malformed historical response included.
C18_EveryFailureSetsError ==
    /\ last.op = "weatherFailed" => weather.error \notin NoMessage
    /\ last.op = "newsFailed" => news.error \notin NoMessage
    /\ last.op = "stockFailed" => stocks.error \notin NoMessage
    /\ (last.op = "stockSucceeded" /\ last.body[1].series = None) =>
          stocks.error \notin NoMessage

(***************************************************************************)
(* The sampling step of the windower, checked under ChartSpec.             *)
(***************************************************************************)
\* stride = max(1, floor(n / 10))
Stride(n) == IF n \div 10 >= 1 THEN n \div 10 ELSE 1

CeilDiv(a, b) == (a + b - 1) \div b

Min(a, b) == IF a <= b THEN a ELSE b

\* the record at index k (from 0) of the set S of days in ascending order
DayAt(S, k) == CHOOSE d \in S : Cardinality({ e \in S : e < d }) = k

\* C19: with n retained records in ascending order and stride =
\* max(1, floor(n / 10)), the output has min(10, ceil(n / stride)) points
\* and its k-th point (from 0) is the retained record at index k * stride:
\* all n records when n <= 10, exactly 10 when n > 10.
C19_StrideSampling ==
    (cDone /\ ~cHist.null) =>
        LET n   == Cardinality(RetainedDays)
            len == Min(10, CeilDiv(n, Stride(n)))
        IN  /\ Len(cChart.labels) = len
            /\ \A k \in 0..(len - 1) :
                  cChart.labels[k + 1] = DayAt(RetainedDays, k * Stride(n))
            /\ n <= 10 => Len(cChart.labels) = n
            /\ n > 10 => Len(cChart.labels) = 10

\* more than 20 records are retained: the stride is above 1 and 10 points
\* are output, the second of them stride records after the first
C19_Witness ==
    /\ cDone
    /\ ~cHist.null
    /\ Cardinality(RetainedDays) >= 20
    /\ Len(cChart.labels) = 10
    /\ cChart.labels[2] = DayAt(RetainedDays, Stride(Cardinality(RetainedDays)))
    /\ cChart.labels[2] > cChart.labels[1] + 1

(***************************************************************************)
(* The two responses of a weather fetch, checked under Spec.               *)
(***************************************************************************)
\* a step in which a weather fetch that holds both responses, both with a
\* success status, ends
BothResponsesOk ==
    \E i \in 1..Len(wFetches) :
        /\ wFetches[i].pc = "resForecast"
        /\ wFetches[i].currentOk
        /\ wFetches' = RemoveAt(wFetches, i)

\* C20 as stated: the weather data is populated only when a fetch holds both
\* responses with success status, and then with both bodies together; when a
\* response has a non-success status the error is 'City not found' and the
\* data stays none; the data never holds a current-weather body without a
\* forecast body.
C20_BothResponsesOrNothing ==
    [][ /\ (weather'.data # None /\ weather'.data # weather.data) =>
              /\ last'.op = "weatherSucceeded"
              /\ BothResponsesOk
              /\ weather'.data = last'.body
        /\ (last'.op = "weatherFailed" /\ weather'.error = "City not found") =>
              weather'.data = None
        /\ weather'.data # None =>
              /\ DOMAIN weather'.data[1] = {"current", "forecast"}
              /\ weather'.data[1].current.q = weather'.data[1].forecast.q
      ]_vars

(***************************************************************************)
(* Order of requests, mounting and the shell, checked under Spec.          *)
(***************************************************************************)
\* the historical-series requests among the requests in flight
HistoricalRequests(requests) ==
    { i \in 1..Len(requests) : requests[i].pc = "historical" }

QuoteRefusals == {"API limit reached. Try again in 1 minute.", "No data found for this symbol."}

\* C21: within one stock fetch the historical-series request is issued only
\* after the quote response was received and accepted, which stores the
\* quote; a quote response that is a rate-limit note or holds no quote ends
\* the fetch in failure without a historical-series request.
C21_HistoryAfterAcceptedQuote ==
    [][ /\ \A i \in HistoricalRequests(sFetches') :
              sFetches'[i].quote = Some(QuoteBody(sFetches'[i].symbol))
        /\ Cardinality(HistoricalRequests(sFetches')) > Cardinality(HistoricalRequests(sFetches)) =>
              /\ last'.op = "stockQuote"
              /\ stocks'.stockData = Some(stockDataOf(last'.body[1]))
              /\ Len(sFetches') = Len(sFetches)
        /\ (last'.op = "stockFailed" /\ stocks'.error \in QuoteRefusals) =>
              /\ Len(sFetches') = Len(sFetches) - 1
              /\ Cardinality(HistoricalRequests(sFetches')) <=
                    Cardinality(HistoricalRequests(sFetches))
      ]_vars

\* the quote was accepted and the historical series is being requested
C21_Witness ==
    /\ last.op = "stockQuote"
    /\ Len(sFetches) = 1
    /\ sFetches[1].pc = "historical"
    /\ stocks.stockData = Some(stockDataOf(QuoteBody("MSFT")))
    /\ stocks.loading

\* C22: on mount the news panel starts a fetch for 'general' and is in
\* Loading; the weather panel starts no fetch and is Idle, and stays so until
\* a non-empty city is submitted; the stock panel starts a fetch for MSFT if
\* and only if the API key is valid.
C22_MountBehaviour ==
    [][ /\ (last'.op = "setActiveTab" /\ activeTab' = "news") =>
              /\ nFetches' = <<NewsRequest("general")>>
              /\ NewsPhase(news') = "Loading"
        /\ (last'.op = "setActiveTab" /\ activeTab' = "weather") =>
              /\ wFetches' = <<>>
              /\ WeatherPhase(weather') = "Idle"
        /\ (activeTab = "weather" /\ WeatherPhase(weather) = "Idle" /\ wFetches = <<>>
              /\ last'.op # "setActiveTab"
              /\ (WeatherPhase(weather') # "Idle" \/ wFetches' # <<>>)) =>
              /\ last'.op = "weatherSearch"
              /\ Str(trim(last'.body[1])) # ""
        /\ (last'.op = "setActiveTab" /\ activeTab' = "stocks") =>
              IF StockKey \notin InvalidKeys
              THEN /\ Len(sFetches') = 1
                   /\ sFetches'[1].symbol = "MSFT"
                   /\ sFetches'[1].pc = "quote"
                   /\ stocks'.loading
              ELSE sFetches' = <<>> /\ ~stocks'.loading
      ]_vars

\* the stock panel has just been mounted with a valid key
C22_Witness ==
    /\ last.op = "setActiveTab"
    /\ activeTab = "stocks"
    /\ StockKey = "K7XQ"
    /\ Len(sFetches) = 1
    /\ stocks.loading

MountedPanels ==
    {t \in Tabs : CASE t = "weather" -> weather.mounted
                    [] t = "news"    -> news.mounted
                    [] t = "stocks"  -> stocks.mounted}

\* C23: the active tab is one of weather, news, stocks, and weather
\* initially; it changes only by a tab button, to that button's tab; in
\* every state exactly the panel the active tab names is mounted.
C23_OneActivePanel ==
    /\ activeTab = "weather"
    /\ [](activeTab \in {"weather", "news", "stocks"} /\ MountedPanels = {activeTab})
    /\ [][activeTab' # activeTab => last'.op = "setActiveTab"]_vars

\* a tab button was pressed: the news panel alone is mounted
C23_Witness ==
    /\ last.op = "setActiveTab"
    /\ activeTab = "news"
    /\ news.mounted
    /\ ~weather.mounted
    /\ ~stocks.mounted

(***************************************************************************)
(* The loading flag.                                                       *)
(***************************************************************************)
\* C24 as stated: whenever a fetch of a panel is in flight the panel's
\* loading flag is true.
C24_InFlightImpliesLoading ==
    /\ wFetches # <<>> => weather.loading
    /\ nFetches # <<>> => news.loading
    /\ sFetches # <<>> => stocks.loading

\* the HTTP collaborator answers: a response or a rejection reaches a fetch
Respond ==
    \/ WeatherCurrentResponds
    \/ WeatherRequestRejects
    \/ WeatherNotFound
    \/ WeatherJsonRejects
    \/ WeatherSucceeds
    \/ NewsSucceeds
    \/ NewsFails
    \/ StockQuoteAccepted
    \/ StockQuoteRefused
    \/ StockRequestRejects
    \/ StockHistoryStored
    \/ StockHistoryMissing

\* the user acts: a tab button, a search, a category, refresh or range button
UserActs ==
    \/ SetActiveTab
    \/ WeatherSearch
    \/ NewsSelectCategory
    \/ NewsRefresh
    \/ StockSearch
    \/ StockClickSymbol
    \/ StockSetTimeRange

\* the panels with an HTTP collaborator that eventually answers every request,
\* and with one key of each kind: none configured, or a real one
LiveKeys == {UNDEFINED, "K7XQ"}

LiveInit == Init /\ env.NEXT_PUBLIC_ALPHAVANTAGE_API_KEY \in LiveKeys

\* the user waits for the answer before acting again: the fetches in flight
\* after a user event
MaxLiveInFlight == 1

LiveCap == Len(wFetches) + Len(nFetches) + Len(sFetches) <= MaxLiveInFlight

LiveNext ==
    \/ SetActiveTab /\ LiveCap'
    \/ WeatherSearch /\ LiveCap'
    \/ NewsSelectCategory /\ LiveCap'
    \/ NewsRefresh /\ LiveCap'
    \/ StockSearch /\ LiveCap'
    \/ StockClickSymbol /\ LiveCap'
    \/ StockSetTimeRange /\ LiveCap'
    \/ Respond

LiveSpec == LiveInit /\ [][LiveNext]_vars /\ WF_vars(Respond)

\* the mounted panel is loading
MountedLoading ==
    CASE activeTab = "weather" -> weather.loading
      [] activeTab = "news"    -> news.loading
      [] activeTab = "stocks"  -> stocks.loading

\* C25: if every request is eventually answered (LiveSpec) and the user
\* eventually stops acting, the mounted panel eventually has loading false
\* and keeps it: no fetch outcome leaves a panel stuck in Loading.
C25_LoadingEnds ==
    <>[][~UserActs]_vars => <>[](~MountedLoading)

\* a fetch ended by the outcome that stores nothing, and the panel is at
\* rest with loading false
C25_Witness ==
    /\ last.op = "stockSucceeded"
    /\ last.body[1].series = None
    /\ sFetches = <<>>
    /\ ~stocks.loading
    /\ stocks.stockData # None

(***************************************************************************)
(* The span of the sample, checked under ChartSpec.                        *)
(***************************************************************************)
\* the index (from 0) of day d among the days of S in ascending order
IndexOf(S, d) == Cardinality({ e \in S : e < d })

\* C26 as stated: when more records are retained than are output, the last
\* sampled record lies fewer than stride positions before the most recent
\* retained record: its index is at least n - stride.
C26_SampleSpansWindow ==
    (cDone /\ ~cHist.null /\ Cardinality(RetainedDays) > Len(cChart.labels)) =>
        LET n == Cardinality(RetainedDays)
        IN  IndexOf(RetainedDays, cChart.labels[Len(cChart.labels)]) >= n - Stride(n)

(***************************************************************************)
(* Symbols, repeated searches and the refresh flag, checked under Spec.    *)
(***************************************************************************)
\* C27: in the stock panel the selected symbol is always a member of
\* SUPPORTED_SYMBOLS, every request in flight is for a supported symbol, and
\* the 'Supported symbols' rejection inside the fetch is never raised.
C27_SymbolAlwaysSupported ==
    /\ stocks.symbol \in SupportedSet
    /\ \A i \in 1..Len(sFetches) : sFetches[i].symbol \in SupportedSet
    /\ stocks.error # "Supported symbols: " \o SupportedList

\* a search has selected another supported symbol and its fetch is in flight
C27_Witness ==
    /\ last.op = "stockSearch"
    /\ last.body = Some(<<" ", "a", "m", "d", " ">>)
    /\ stocks.symbol = "AMD"
    /\ Len(sFetches) = 1
    /\ sFetches[1].symbol = "AMD"

\* a weather search whose trimmed text is empty or is the selected city
RepeatedWeatherSearch ==
    /\ last'.op = "weatherSearch"
    /\ Str(trim(last'.body[1])) \in {"", weather.city}

\* C28: a weather search whose trimmed text is empty, or equals the selected
\* city, starts no fetch and leaves city, data, error and loading unchanged.
C28_RepeatedSearchDoesNothing ==
    [][ RepeatedWeatherSearch =>
          /\ wFetches' = wFetches
          /\ weather'.city = weather.city
          /\ weather'.data = weather.data
          /\ weather'.error = weather.error
          /\ weather'.loading = weather.loading ]_vars

\* the panel is Failed for Oslo and Oslo has been searched again
C28_Witness ==
    /\ last.op = "weatherSearch"
    /\ Str(trim(last.body[1])) = "Oslo"
    /\ weather.city = "Oslo"
    /\ weather.error = "City not found"
    /\ ~weather.loading
    /\ wFetches = <<>>

\* C29: in the news panel refreshing implies loading in every state; the
\* refresh button acts only while refreshing is false; every fetch
\* completion, success or failure, sets both flags to false.
C29_RefreshingImpliesLoading ==
    [][ /\ (news.mounted /\ news.refreshing => news.loading)'
        /\ last'.op = "newsRefresh" => ~news.refreshing /\ news'.refreshing
        /\ last'.op \in {"newsSucceeded", "newsFailed"} =>
              ~news'.loading /\ ~news'.refreshing ]_vars

\* refresh was pressed while the fetch of a category change was in flight
C29_Witness ==
    /\ last.op = "newsRefresh"
    /\ news.refreshing
    /\ news.loading
    /\ Len(nFetches) = 2

====
